---- MODULE Spec2Model ----
(***************************************************************************)
(* A model of scripts/strict_check.py: the strict checker of the editor    *)
(* layer index.  The checker walks a list of GeoJSON source files and, for *)
(* each, runs one validator chosen by the declared imagery type            *)
(* (check_tms, check_wms, check_wms_endpoint, check_wmts), collecting      *)
(* good / warning / error messages.                                        *)
(*                                                                         *)
(* Each handler of the script is one action.  The handlers themselves are  *)
(* operators computed the way the code computes them; the network is an    *)
(* input of the state (which zooms a tile server answers with 200, what a  *)
(* WMS server answers to each GetCapabilities request).                    *)
(***************************************************************************)
EXTENDS Integers, Sequences, FiniteSets, TLC

VARIABLES
    pc,             \* position of the script
    source,         \* the source record being checked (and the servers behind it)
    good_msgs,      \* good_msgs of the record being checked
    warning_msgs,   \* warning_msgs of the record being checked
    error_msgs,     \* error_msgs of the record being checked
    http,           \* the HTTP requests issued so far, in order
    tested_zooms,   \* check_tms: tested_zooms
    zoom_success,   \* check_tms: zoom_success
    zoom_failures,  \* check_tms: zoom_failures
    wms,            \* the capability tree of the last parse_wms call
    files,          \* arguments.path
    fileno,         \* number of entries of arguments.path the loop has consumed
    outcomes,       \* what became of each consumed entry
    borkenbuild,    \* the flag borkenbuild
    status          \* exit status of the process (-1 while it runs)

vars == <<pc, source, good_msgs, warning_msgs, error_msgs, http, tested_zooms,
          zoom_success, zoom_failures, wms, files, fileno, outcomes, borkenbuild,
          status>>

-----------------------------------------------------------------------------
(* Bounds of the model *)

\* zoom levels a tile source may declare are 0 .. ZoomLimit
ZoomLimit == 10

(* Program constants *)

DefaultMinZoom == 0
DefaultMaxZoom == 22
WidenSpan == 4

-----------------------------------------------------------------------------
(* Helpers *)

Min(a, b) == IF a < b THEN a ELSE b
Max(a, b) == IF a > b THEN a ELSE b

\* Python's range(a, b): a, a+1, ..., b-1
RangeUp(a, b) == [i \in 1..(IF b > a THEN b - a ELSE 0) |-> a + i - 1]

\* Python's range(a, b, -1): a, a-1, ..., b+1
RangeDown(a, b) == [i \in 1..(IF a > b THEN a - b ELSE 0) |-> a - i + 1]

\* A message of one of the three message lists: its text, and the values
\* formatted into it.
Msg(text, args) == [msg |-> text, args |-> args]

\* sorted(...) of a set of integers
RECURSIVE SortedSet(_)
SortedSet(S) ==
    IF S = {} THEN <<>>
    ELSE LET m == CHOOSE x \in S : \A y \in S : x <= y
         IN <<m>> \o SortedSet(S \ {m})

\* sorted(...) of a list of integers (duplicates kept)
RECURSIVE InsertSorted(_, _)
InsertSorted(s, x) ==
    IF s = <<>> THEN <<x>>
    ELSE IF x <= Head(s) THEN <<x>> \o s
    ELSE <<Head(s)>> \o InsertSorted(Tail(s), x)

RECURSIVE SortedList(_)
SortedList(s) ==
    IF s = <<>> THEN <<>> ELSE InsertSorted(SortedList(Tail(s)), Head(s))

\* the variable wms before any capability document has been parsed
NoWms == [version |-> "", layers |-> <<>>, formats |-> <<>>]

-----------------------------------------------------------------------------
(* check_tms *)

\* A tile source: url is the template, seen through the tokens check_tms
\* looks for; min_zoom and max_zoom are optional properties (a set with at
\* most one element); geometry is "absent", "null", "polygon" or "invalid"
\* (a value shape() raises on); reachable is the set of zooms the tile
\* server answers with status 200.

min_zoom_of(src) ==
    IF src.min_zoom = {} THEN DefaultMinZoom ELSE CHOOSE z \in src.min_zoom : TRUE

max_zoom_of(src) ==
    IF src.max_zoom = {} THEN DefaultMaxZoom ELSE CHOOSE z \in src.max_zoom : TRUE

\* test_url: True iff the GET answers with status 200
test_url(src, zoom) == zoom \in src.reachable

\* the value bound to the switch placeholder: the first alternative
switch_parameter(src) ==
    IF src.url.switch = <<>> THEN "none" ELSE src.url.switch[1]

\* test_zoom(zoom), on the closure's state st
test_zoom(src, st, zoom) ==
    LET ok == test_url(src, zoom)
    IN [tested   |-> st.tested \cup {zoom},
        success  |-> IF ok THEN Append(st.success, zoom) ELSE st.success,
        failures |-> IF ok THEN st.failures ELSE Append(st.failures, zoom),
        probes   |-> Append(st.probes,
                            [kind |-> "tile", zoom |-> zoom,
                             switch |-> switch_parameter(src)]),
        last     |-> ok]

\* for zoom in zs: if zoom not in tested_zooms: if test_zoom(zoom): break
RECURSIVE WidenNoBreak(_, _, _)
WidenNoBreak(src, st, zs) ==
    IF zs = <<>> THEN st
    ELSE IF Head(zs) \in st.tested THEN WidenNoBreak(src, st, Tail(zs))
    ELSE WidenNoBreak(src, test_zoom(src, st, Head(zs)), Tail(zs))

RECURSIVE Widen(_, _, _)
Widen(src, st, zs) ==
    IF zs = <<>> THEN st
    ELSE IF Head(zs) \in st.tested THEN Widen(src, st, Tail(zs))
    ELSE LET st2 == test_zoom(src, st, Head(zs))
         IN IF st2.last THEN st2 ELSE Widen(src, st2, Tail(zs))

\* range(min_zoom + 1, min(min_zoom + 4, max_zoom))
AscendingRangeInclusive(min_zoom, max_zoom) ==
    RangeUp(min_zoom + 1, Min(min_zoom + WidenSpan, max_zoom) + 1)

AscendingRange(min_zoom, max_zoom) ==
    RangeUp(min_zoom + 1, Min(min_zoom + WidenSpan, max_zoom))

\* range(max_zoom, max(max_zoom - 4, min_zoom), -1)
DescendingRangeInclusive(min_zoom, max_zoom) ==
    RangeDown(max_zoom, Max(max_zoom - WidenSpan, min_zoom) - 1)

DescendingRange(min_zoom, max_zoom) ==
    RangeDown(max_zoom, Max(max_zoom - WidenSpan, min_zoom))

\* which early return the template takes: the {z} test comes first
EarlyExitApikeyFirst(url) ==
    IF url.apikey THEN "apikey" ELSE IF url.z THEN "z" ELSE "none"

EarlyExitNone(url) == IF url.z THEN "z" ELSE "none"

EarlyExit(url) ==
    IF url.z THEN "z" ELSE IF url.apikey THEN "apikey" ELSE "none"

\* no zoom tested yet
NoneTested ==
    [tested |-> {}, success |-> <<>>, failures |-> <<>>, probes |-> <<>>,
     last |-> FALSE]

\* if not test_zoom(min_zoom): the ascending loop; st is the state after
\* the probe of min_zoom
AscendingPhase(src, st) ==
    IF st.last THEN st
    ELSE Widen(src, st, AscendingRange(min_zoom_of(src), max_zoom_of(src)))

\* if not test_zoom(max_zoom): the descending loop; st is the state after
\* the probe of max_zoom
DescendingPhase(src, st) ==
    IF st.last THEN st
    ELSE Widen(src, st, DescendingRange(min_zoom_of(src), max_zoom_of(src)))

\* the two probing phases
ProbeZooms(src) ==
    DescendingPhase(src,
        test_zoom(src,
                  AscendingPhase(src, test_zoom(src, NoneTested, min_zoom_of(src))),
                  max_zoom_of(src)))

\* the message the probing ends with
Classify(st) ==
    LET tested_str == SortedSet(st.tested)
    IN IF Len(st.failures) = 0 /\ Len(st.success) > 0
       THEN [good  |-> <<Msg("Zoom levels reachable", <<tested_str>>)>>,
             error |-> <<>>]
       ELSE IF Len(st.failures) > 0 /\ Len(st.success) > 0
       THEN [good  |-> <<>>,
             error |-> <<Msg("Zoom level not reachable",
                             <<SortedList(st.failures), tested_str>>)>>]
       ELSE [good  |-> <<>>,
             error |-> <<Msg("No zoom level reachable", <<tested_str>>)>>]

NoProbing ==
    [tested |-> {}, success |-> <<>>, failures |-> <<>>, probes |-> <<>>]

\* what check_tms leaves when its probing ended in state st with the
\* messages c
ProbingReport(st, c) ==
    [good |-> c.good, warning |-> <<>>, error |-> c.error,
     st |-> [tested |-> st.tested, success |-> st.success,
             failures |-> st.failures, probes |-> st.probes]]

ClassifiedReport(st) == ProbingReport(st, Classify(st))

\* check_tms(source, good_msgs, warning_msgs, error_msgs): what it appends to
\* the three lists, the requests it issues, and its locals when it ends
CheckTms(src) ==
    IF src.geometry = "invalid"
    THEN \* shape() raises; the handler's except clause reports it
         [good |-> <<>>, warning |-> <<>>,
          error |-> <<Msg("Exception", <<"geometry">>)>>, st |-> NoProbing]
    ELSE IF EarlyExit(src.url) = "z"
    THEN [good |-> <<>>, warning |-> <<>>,
          error |-> <<Msg("{z} found instead of {zoom} in tile url", <<>>)>>,
          st |-> NoProbing]
    ELSE IF EarlyExit(src.url) = "apikey"
    THEN [good |-> <<>>,
          warning |-> <<Msg("Not possible to check URL, apikey is required.", <<>>)>>,
          error |-> <<>>, st |-> NoProbing]
    ELSE ClassifiedReport(ProbeZooms(src))

OptionalZoom(zooms) == {{}} \cup {{z} : z \in zooms}

UrlTemplates ==
    [z : BOOLEAN, apikey : BOOLEAN, switch : {<<>>, <<"a", "b">>}]

\* The tile sources the model enumerates.  Sources that reach the probing
\* take every set of reachable zooms inside the declared range; sources
\* that leave early take the two extreme servers.
ProbedTileSources(zooms) ==
    {s \in [type : {"tms"}, url : {u \in UrlTemplates : ~u.z /\ ~u.apikey},
            min_zoom : OptionalZoom(zooms), max_zoom : OptionalZoom(zooms),
            geometry : {"absent", "null", "polygon"},
            reachable : SUBSET zooms] :
        /\ min_zoom_of(s) <= max_zoom_of(s)
        /\ s.reachable \subseteq min_zoom_of(s)..max_zoom_of(s)}

OtherTileSources(zooms) ==
    {s \in [type : {"tms"}, url : UrlTemplates,
            min_zoom : OptionalZoom(zooms), max_zoom : OptionalZoom(zooms),
            geometry : {"absent", "null", "polygon", "invalid"},
            reachable : {{}, zooms}] :
        /\ min_zoom_of(s) <= max_zoom_of(s)
        /\ (s.url.z \/ s.url.apikey \/ s.geometry = "invalid")}

TileSources(zooms) == ProbedTileSources(zooms) \cup OtherTileSources(zooms)

InitTms ==
    /\ pc = "check_tms"
    /\ source \in TileSources(0..ZoomLimit)
    /\ good_msgs = <<>>
    /\ warning_msgs = <<>>
    /\ error_msgs = <<>>
    /\ http = <<>>
    /\ tested_zooms = {}
    /\ zoom_success = <<>>
    /\ zoom_failures = <<>>
    /\ wms = NoWms
    /\ files = <<>>
    /\ fileno = 0
    /\ outcomes = <<>>
    /\ borkenbuild = FALSE
    /\ status = -1

\* the call's effect on the variables, r being what check_tms leaves
TmsReturns(r) ==
    /\ good_msgs' = good_msgs \o r.good
    /\ warning_msgs' = warning_msgs \o r.warning
    /\ error_msgs' = error_msgs \o r.error
    /\ http' = http \o r.st.probes
    /\ tested_zooms' = r.st.tested
    /\ zoom_success' = r.st.success
    /\ zoom_failures' = r.st.failures

\* one call of check_tms
DoCheckTms ==
    /\ pc = "check_tms"
    /\ TmsReturns(CheckTms(source))
    /\ pc' = "done"
    /\ UNCHANGED <<source, wms, files, fileno, outcomes, borkenbuild, status>>

NextTms == DoCheckTms

SpecTms == InitTms /\ [][NextTms]_vars

-----------------------------------------------------------------------------
(* parse_wms *)

\* What a server answers to one GET is a record
\*   [xml, root, version, tree, formats]
\* xml is "unreachable" (requests.get raises), "malformed" (the body is not
\* well-formed XML) or "ok"; root is the root tag without its namespace;
\* version is the root's version attribute (a set with at most one
\* element); formats lists the texts of Capability/Request/GetMap/Format;
\* tree holds the Layer elements below Capability:
\*   [n, parent, name, crs, styles]
\* with the elements numbered 1..n, siblings in document order, parent[i]
\* the enclosing Layer of i (0: directly under Capability), name[i] the text
\* of its Name child (a set with at most one element), crs[i] the texts of
\* its CRS and SRS children, styles[i] the names of its Style children.

\* the text of an element that has none (e.text is None)
NoText == "<None>"

\* a Style element without a Name child
NoNameStyle == "<unnamed>"

\* str.upper() on the CRS identifiers of the model
Upper(text) ==
    CASE text = "epsg:3857" -> "EPSG:3857"
      [] text = "epsg:4326" -> "EPSG:4326"
      [] OTHER -> text

\* element.findall("./Layer"), in document order
ChildLayers(tree, parent) ==
    SortedSet({i \in 1..tree.n : tree.parent[i] = parent})

\* parse_layer(element, crs, styles).  The CRS sets are objects: st.heap
\* lists them, crs is the index of the set handed in, and new_layer['CRS']
\* is that very set.  st.layers is the dict layers; st.failed tells that an
\* exception has been raised.
RECURSIVE parse_layer(_, _, _, _, _)
RECURSIVE parse_sublayers(_, _, _, _, _)

parse_layer(tree, st, element, crs, styles) ==
    IF st.failed THEN st
    ELSE IF NoText \in tree.crs[element]
    THEN [st EXCEPT !.failed = TRUE,
                    !.error = "'NoneType' object has no attribute 'upper'"]
    ELSE IF NoNameStyle \in tree.styles[element]
    THEN [st EXCEPT !.failed = TRUE, !.error = "'Name'"]
    ELSE
        LET new_styles == styles \cup tree.styles[element]
            new_layer == [CRS |-> crs, Styles |-> new_styles, element |-> element]
            st1 == [st EXCEPT
                      !.heap[crs] = @ \cup {Upper(t) : t \in tree.crs[element]},
                      !.layers = IF tree.name[element] = {} THEN @
                                 ELSE ((CHOOSE nm \in tree.name[element] : TRUE)
                                          :> new_layer) @@ @]
        IN parse_sublayers(tree, st1, ChildLayers(tree, element), crs, new_styles)

\* for sl in element.findall("./Layer"):
\*     parse_layer(sl, new_layer['CRS'].copy(), new_layer['Styles'])
parse_sublayers(tree, st, sublayers, crs, styles) ==
    IF st.failed \/ sublayers = <<>> THEN st
    ELSE LET copied == [st EXCEPT !.heap = Append(@, @[crs])]
         IN parse_sublayers(tree,
                            parse_layer(tree, copied, Head(sublayers),
                                        Len(copied.heap), styles),
                            Tail(sublayers), crs, styles)

\* for top_layer in top_layers: parse_layer(top_layer)
\* Every call takes the default arguments: the one set object and the one
\* dict object created when parse_layer was defined.
RECURSIVE parse_top_layers(_, _, _)
parse_top_layers(tree, st, top_layers) ==
    IF st.failed \/ top_layers = <<>> THEN st
    ELSE parse_top_layers(tree, parse_layer(tree, st, Head(top_layers), 1, {}),
                          Tail(top_layers))

\* parse_wms(xml): [ok |-> FALSE, error] when it raises, else the dict wms,
\* each layer's CRS read off the heap as it stands when parsing ends
ParseError(text) == [ok |-> FALSE, error |-> text]

\* the result of parse_wms once the layers are parsed, st being the state
\* parse_layer left
ParsedCapabilities(response, st) ==
    IF st.failed THEN ParseError(st.error)
    ELSE [ok |-> TRUE,
          version |-> CHOOSE v \in response.version : TRUE,
          layers |-> [nm \in DOMAIN st.layers |->
                        [CRS |-> st.heap[st.layers[nm].CRS],
                         Styles |-> st.layers[nm].Styles,
                         element |-> st.layers[nm].element]],
          formats |-> response.formats]

parse_wms(response) ==
    IF response.xml = "malformed" THEN ParseError("Could not parse XML.")
    ELSE IF response.root \in {"ServiceExceptionReport", "ServiceException"}
    THEN ParseError("WMS service exception")
    ELSE IF response.root \notin {"WMT_MS_Capabilities", "WMS_Capabilities"}
    THEN ParseError("No Capabilities Element present")
    ELSE IF response.version = {}
    THEN ParseError("WMS version cannot be identified.")
    ELSE ParsedCapabilities(response,
             parse_top_layers(response.tree,
                              [heap |-> <<{}>>, layers |-> <<>>,
                               failed |-> FALSE, error |-> ""],
                              ChildLayers(response.tree, 0)))

\* requests.get(url) followed by parse_wms(r.text)
GetAndParse(response) ==
    IF response.xml = "unreachable" THEN ParseError("Connection error")
    ELSE parse_wms(response)

\* the dict wms of a parse that succeeded
WmsOf(parsed) ==
    [version |-> parsed.version, layers |-> parsed.layers, formats |-> parsed.formats]

-----------------------------------------------------------------------------
(* check_wms_endpoint *)

\* what check_wms_endpoint leaves, parsed being the outcome of the parse
EndpointReport(parsed) ==
    [good |-> <<>>, warning |-> <<>>,
     error |-> IF parsed.ok THEN <<>>
               ELSE <<Msg("Exception", <<parsed.error>>)>>,
     requests |-> <<[kind |-> "GET", url |-> "endpoint"]>>,
     wms |-> IF parsed.ok THEN WmsOf(parsed) ELSE NoWms]

\* check_wms_endpoint(source, good_msgs, warning_msgs, error_msgs)
CheckWmsEndpoint(src) == EndpointReport(GetAndParse(src.response))

\* capability documents have at most MaxLayers Layer elements
MaxLayers == 3

LayerNames == {"a", "b"}
CrsTexts == {"EPSG:4326", "epsg:3857"}
StyleNames == <<"s1", "s2">>

\* the Layer trees of at most MaxLayers elements; either no element has a
\* Style child or each has one
LayerTrees(max_layers) ==
    UNION {
        {[n |-> n, parent |-> p, name |-> nm, crs |-> c,
          styles |-> [i \in 1..n |->
                        IF styled THEN {StyleNames[1 + (i % 2)]} ELSE {}]] :
            p \in {f \in [1..n -> 0..(n - 1)] : \A i \in 1..n : f[i] < i},
            nm \in [1..n -> {{}} \cup {{x} : x \in LayerNames}],
            c \in [1..n -> SUBSET CrsTexts],
            styled \in BOOLEAN} :
        n \in 1..max_layers}

CapabilitiesOf(tree) ==
    [xml |-> "ok", root |-> "WMS_Capabilities", version |-> {"1.3.0"},
     tree |-> tree, formats |-> <<"image/png">>]

EmptyTree ==
    [n |-> 0, parent |-> <<>>, name |-> <<>>, crs |-> <<>>, styles |-> <<>>]

\* answers no parse survives
BrokenResponses ==
    {[CapabilitiesOf(EmptyTree) EXCEPT !.xml = "unreachable"],
     [CapabilitiesOf(EmptyTree) EXCEPT !.xml = "malformed"],
     [CapabilitiesOf(EmptyTree) EXCEPT !.root = "ServiceExceptionReport"],
     [CapabilitiesOf(EmptyTree) EXCEPT !.root = "html"],
     [CapabilitiesOf(EmptyTree) EXCEPT !.version = {}],
     CapabilitiesOf([n |-> 1, parent |-> <<0>>, name |-> <<{"a"}>>,
                     crs |-> <<{NoText}>>, styles |-> <<{}>>]),
     CapabilitiesOf([n |-> 1, parent |-> <<0>>, name |-> <<{"a"}>>,
                     crs |-> <<{}>>, styles |-> <<{NoNameStyle}>>])}

EndpointSources(max_layers) ==
    {[type |-> "wms_endpoint", response |-> r] :
        r \in BrokenResponses \cup {CapabilitiesOf(t) : t \in LayerTrees(max_layers)}}

InitWmsEndpoint ==
    /\ pc = "check_wms_endpoint"
    /\ source \in EndpointSources(MaxLayers)
    /\ good_msgs = <<>>
    /\ warning_msgs = <<>>
    /\ error_msgs = <<>>
    /\ http = <<>>
    /\ tested_zooms = {}
    /\ zoom_success = <<>>
    /\ zoom_failures = <<>>
    /\ wms = NoWms
    /\ files = <<>>
    /\ fileno = 0
    /\ outcomes = <<>>
    /\ borkenbuild = FALSE
    /\ status = -1

\* the call's effect on the variables, r being what the validator leaves
WmsReturns(r) ==
    /\ good_msgs' = good_msgs \o r.good
    /\ warning_msgs' = warning_msgs \o r.warning
    /\ error_msgs' = error_msgs \o r.error
    /\ http' = http \o r.requests
    /\ wms' = r.wms

\* one call of check_wms_endpoint
DoCheckWmsEndpoint ==
    /\ pc = "check_wms_endpoint"
    /\ WmsReturns(CheckWmsEndpoint(source))
    /\ pc' = "done"
    /\ UNCHANGED <<source, tested_zooms, zoom_success, zoom_failures, files,
                   fileno, outcomes, borkenbuild, status>>

NextWmsEndpoint == DoCheckWmsEndpoint

SpecWmsEndpoint == InitWmsEndpoint /\ [][NextWmsEndpoint]_vars

-----------------------------------------------------------------------------
(* check_wms *)

\* A WMS source is a record
\*   [type, url_valid, placeholders, query, available_projections, responses]
\* url_valid: what validators.url says of the url without its braces;
\* placeholders: which of {proj}, {bbox}, {width}, {height} the url contains;
\* query: the url's query string, a list of <<key, value>> pairs;
\* available_projections: the property of that name (a set holding the list,
\* or empty when the property is absent); responses: what the server
\* answers to a GetCapabilities request, by the version the request names.
\*
\* A query value is a list of tokens: "," is the comma, every other token
\* is a piece of text without a comma.  <<>> is the empty string.  No two
\* pieces of text are adjacent in the values the model enumerates.

Comma == ","

\* the version a GetCapabilities request names: none, or one of four
VersionOrder == <<{}, {"1.3.0"}, {"1.1.1"}, {"1.1.0"}, {"1.0.0"}>>

\* str.lower() on the query keys of the model
Lower(key) ==
    CASE key = "VERSION" -> "version"
      [] key = "REQUEST" -> "request"
      [] key = "LAYERS" -> "layers"
      [] key = "BBOX" -> "bbox"
      [] key = "WIDTH" -> "width"
      [] key = "HEIGHT" -> "height"
      [] key = "FORMAT" -> "format"
      [] key = "CRS" -> "crs"
      [] key = "SRS" -> "srs"
      [] key = "STYLES" -> "styles"
      [] key = "MAP" -> "map"
      [] OTHER -> key

\* parse_qsl(u.query): the pairs of the query string; a pair with a blank
\* value is dropped (keep_blank_values is off)
parse_qsl(query) == SelectSeq(query, LAMBDA kv : kv[2] # <<>>)

\* for k, v in parse_qsl(u.query): wms_args[k.lower()] = v
RECURSIVE wms_args_of(_, _)
wms_args_of(pairs, args) ==
    IF pairs = <<>> THEN args
    ELSE wms_args_of(Tail(pairs), (Lower(Head(pairs)[1]) :> Head(pairs)[2]) @@ args)

\* one field of a comma-separated value
Field(tokens) == IF tokens = <<>> THEN "" ELSE tokens[1]

\* str.split(","): the fields between the commas
RECURSIVE Split(_)
Split(text) ==
    IF \A i \in 1..Len(text) : text[i] # Comma THEN <<Field(text)>>
    ELSE LET c == CHOOSE i \in 1..Len(text) :
                      text[i] = Comma /\ \A j \in 1..(i - 1) : text[j] # Comma
         IN <<Field(SubSeq(text, 1, c - 1))>> \o Split(SubSeq(text, c + 1, Len(text)))

\* ',' * n
Commas(n) == [i \in 1..n |-> Comma]

\* the mandatory GetMap parameters missing from wms_args
MandatoryParameters ==
    <<"version", "request", "layers", "bbox", "width", "height", "format">>

MissingWithoutProjection(args) ==
    {MandatoryParameters[i] : i \in {j \in 1..Len(MandatoryParameters) :
                                       MandatoryParameters[j] \notin DOMAIN args}}

missing_request_parameters_of(args) ==
    {MandatoryParameters[i] : i \in {j \in 1..Len(MandatoryParameters) :
                                       MandatoryParameters[j] \notin DOMAIN args}}
    \cup (IF "version" \in DOMAIN args /\ args["version"] = <<"1.3.0">>
          THEN (IF "crs" \notin DOMAIN args THEN {"crs"} ELSE {})
          ELSE IF "version" \in DOMAIN args /\ args["version"] # <<"1.3.0">>
          THEN (IF "srs" \notin DOMAIN args THEN {"srs"} ELSE {})
          ELSE {})

\* get_GetCapabilities_url(wms_version), seen through its query arguments
GetCapabilitiesRequest(args, wmsversion) ==
    [kind |-> "GetCapabilities", service |-> "WMS", version |-> wmsversion,
     map |-> IF "map" \in DOMAIN args THEN {args["map"]} ELSE {}]

\* acc after one more request: the request is logged, and the answer is
\* kept when it parses, its exception otherwise
Attempt(args, wmsversion, acc, parsed) ==
    IF parsed.ok
    THEN [acc EXCEPT !.requests = Append(@, GetCapabilitiesRequest(args, wmsversion)),
                     !.parsed = parsed]
    ELSE [acc EXCEPT !.requests = Append(@, GetCapabilitiesRequest(args, wmsversion)),
                     !.exceptions = Append(@, Msg("WMS Error",
                                                  <<wmsversion, parsed.error>>))]

\* the loop over [None, '1.3.0', '1.1.1', '1.1.0', '1.0.0'], from its i-th
\* round on; acc holds the requests sent, the exceptions collected and the
\* capabilities parsed
RECURSIVE NegotiateNoBreak(_, _, _, _)
NegotiateNoBreak(src, args, i, acc) ==
    IF i > Len(VersionOrder) THEN acc
    ELSE NegotiateNoBreak(src, args, i + 1,
             Attempt(args, VersionOrder[i], acc,
                     GetAndParse(src.responses[VersionOrder[i]])))

RECURSIVE Negotiate(_, _, _, _)
Negotiate(src, args, i, acc) ==
    IF i > Len(VersionOrder) \/ acc.parsed.ok THEN acc
    ELSE Negotiate(src, args, i + 1,
             Attempt(args, VersionOrder[i], acc,
                     GetAndParse(src.responses[VersionOrder[i]])))

\* the layer check: the names of the layers parameter the capabilities do
\* not advertise
LayerErrors(args, caps) ==
    LET not_found_layers ==
            SelectSeq(Split(args["layers"]), LAMBDA nm : nm \notin DOMAIN caps.layers)
    IN IF Len(not_found_layers) > 0
       THEN <<Msg("Layers not advertised by WMS GetCapabilities request.",
                  <<not_found_layers>>)>>
       ELSE <<>>

\* for layer_name, style in zip(layers, styles): the mismatches from the
\* i-th pair on
RECURSIVE StylePairErrors(_, _, _, _)
StylePairErrors(caps, layers, styles, i) ==
    IF i > Len(layers) \/ i > Len(styles) THEN <<>>
    ELSE (IF /\ styles[i] # ""
             /\ layers[i] \in DOMAIN caps.layers
             /\ styles[i] \notin caps.layers[layers[i]].Styles
          THEN <<Msg("Layer does not support style", <<layers[i], styles[i]>>)>>
          ELSE <<>>)
         \o StylePairErrors(caps, layers, styles, i + 1)

\* the style check without the exemption of the default style
StyleErrorsNoSkip(args, caps) ==
    IF "styles" \notin DOMAIN args THEN <<>>
    ELSE IF Len(Split(args["styles"])) # Len(Split(args["layers"]))
    THEN <<Msg("Not the same number of styles and layers.", <<>>)>>
    ELSE StylePairErrors(caps, Split(args["layers"]), Split(args["styles"]), 1)

\* the style check
StyleErrors(args, caps) ==
    IF "styles" \notin DOMAIN args THEN <<>>
    ELSE LET layers == Split(args["layers"])
             style == args["styles"]
         IN IF style = <<"default">> \/ style = <<>> \/ style = Commas(Len(layers))
            THEN <<>>
            ELSE LET styles == Split(style)
                 IN IF Len(styles) # Len(layers)
                    THEN <<Msg("Not the same number of styles and layers.", <<>>)>>
                    ELSE StylePairErrors(caps, layers, styles, 1)

\* the CRS check of the layers from the i-th on
RECURSIVE CrsLayerErrors(_, _, _, _)
CrsLayerErrors(caps, layers, projections, i) ==
    IF i > Len(layers) THEN <<>>
    ELSE (IF layers[i] \in DOMAIN caps.layers
          THEN LET not_supported_crs ==
                       {projections[k] : k \in {j \in 1..Len(projections) :
                            Upper(projections[j]) \notin caps.layers[layers[i]].CRS}}
               IN IF not_supported_crs # {}
                  THEN <<Msg("CRS not in",
                             <<not_supported_crs, caps.layers[layers[i]].CRS>>)>>
                  ELSE <<>>
          ELSE <<>>)
         \o CrsLayerErrors(caps, layers, projections, i + 1)

CrsErrors(src, args, caps) ==
    IF src.available_projections = {}
    THEN <<Msg("source is missing 'available_projections' element.", <<>>)>>
    ELSE CrsLayerErrors(caps, Split(args["layers"]),
                        CHOOSE p \in src.available_projections : TRUE, 1)

\* the order of the version strings of the model under Python's str <
VersionRank(version) ==
    CASE version = "1.0.0" -> 1
      [] version = "1.1.0" -> 2
      [] version = "1.1.1" -> 3
      [] version = "1.3.0" -> 4
      [] OTHER -> 0

\* 'jpeg' in text
ContainsJpeg(text) == text \in {"image/jpeg", "image/jpeg; mode=24bit"}

\* the version warning
VersionWarning(args, caps) ==
    IF VersionRank(Field(args["version"])) < VersionRank(caps.version)
    THEN <<Msg("Query requests WMS version, server supports",
               <<args["version"], caps.version>>)>>
    ELSE <<>>

\* the format check; imagery_formats_str cannot be built when a Format
\* element has no text: "', '".join(wms['formats']) raises TypeError
FormatCheck(imagery_format, formats) ==
    IF NoText \in formats
    THEN [warning |-> <<>>, error |-> <<>>, raised |-> TRUE]
    ELSE [warning |-> IF ~ContainsJpeg(imagery_format)
                         /\ \E f \in formats : ContainsJpeg(f)
                      THEN <<Msg("Server supports jpeg", <<imagery_format>>)>>
                      ELSE <<>>,
          error |-> IF imagery_format \notin formats
                    THEN <<Msg("Format not in", <<imagery_format>>)>>
                    ELSE <<>>,
          raised |-> FALSE]

\* the checks on the layers parameter
LayerChecks(src, args, caps) ==
    IF "layers" \in DOMAIN args
    THEN LayerErrors(args, caps) \o StyleErrors(args, caps) \o CrsErrors(src, args, caps)
    ELSE <<>>

\* check_wms after a successful negotiation: the cross-checks against the
\* capabilities caps.  raised tells that an exception left the function.
CrossCheckReport(layer_errors, version_warning, f) ==
    [warning |-> version_warning \o f.warning,
     error |-> layer_errors \o f.error,
     raised |-> f.raised]

CrossCheck(src, args, caps) ==
    CrossCheckReport(LayerChecks(src, args, caps), VersionWarning(args, caps),
                     FormatCheck(Field(args["format"]),
                                 {caps.formats[i] : i \in 1..Len(caps.formats)}))

\* the url checks at the head of check_wms
UrlErrors(src) ==
    (IF src.url_valid THEN <<>> ELSE <<Msg("URL validation error", <<>>)>>)
    \o (IF \E ph \in {"{proj}", "{bbox}", "{width}", "{height}"} :
              ph \notin src.placeholders
        THEN <<Msg("The following values are missing in the URL",
                   <<SelectSeq(<<"{proj}", "{bbox}", "{width}", "{height}">>,
                               LAMBDA ph : ph \notin src.placeholders)>>)>>
        ELSE <<>>)

\* the warning for a query without styles
StylesWarning(args) ==
    IF "styles" \notin DOMAIN args
    THEN <<Msg("Parameter 'styles' is missing in url.", <<>>)>>
    ELSE <<>>

\* what check_wms leaves after the cross-checks x
CrossCheckedReport(src, args, neg, x) ==
    [good |-> <<>>, warning |-> StylesWarning(args) \o x.warning,
     error |-> UrlErrors(src) \o x.error,
     requests |-> neg.requests, wms |-> WmsOf(neg.parsed), raised |-> x.raised]

\* what check_wms leaves after the negotiation neg
NegotiatedReport(src, args, neg) ==
    IF ~neg.parsed.ok
    THEN [good |-> <<>>, warning |-> StylesWarning(args),
          error |-> UrlErrors(src) \o neg.exceptions,
          requests |-> neg.requests, wms |-> NoWms, raised |-> FALSE]
    ELSE CrossCheckedReport(src, args, neg, CrossCheck(src, args, WmsOf(neg.parsed)))

\* check_wms from the mandatory-parameter check on, args being wms_args
CheckWmsArgs(src, args) ==
    IF missing_request_parameters_of(args) # {}
    THEN [good |-> <<>>, warning |-> <<>>,
          error |-> UrlErrors(src)
                    \o <<Msg("Parameter is missing in url.",
                             <<missing_request_parameters_of(args)>>)>>,
          requests |-> <<>>, wms |-> NoWms, raised |-> FALSE]
    ELSE NegotiatedReport(src, args,
             Negotiate(src, args, 1,
                       [requests |-> <<>>, exceptions |-> <<>>,
                        parsed |-> ParseError("")]))

\* check_wms(source, good_msgs, warning_msgs, error_msgs): what it appends to
\* the lists, the requests it issues, the capabilities it ends with, and
\* whether it ends by an exception
CheckWms(src) == CheckWmsArgs(src, wms_args_of(parse_qsl(src.query), <<>>))

\* str.upper() on the query keys of the model
UpperKey(key) ==
    CASE key = "version" -> "VERSION"
      [] key = "request" -> "REQUEST"
      [] key = "layers" -> "LAYERS"
      [] key = "bbox" -> "BBOX"
      [] key = "width" -> "WIDTH"
      [] key = "height" -> "HEIGHT"
      [] key = "format" -> "FORMAT"
      [] key = "crs" -> "CRS"
      [] key = "srs" -> "SRS"
      [] key = "styles" -> "STYLES"
      [] key = "map" -> "MAP"
      [] OTHER -> key

\* a GetMap query string: its keys in upper or lower case, the projection
\* under projkey, the keys of dropped left out, styles and map optional
WmsQuery(upper, version, projkey, layers, format, styles, map, dropped) ==
    LET all == <<<<"version", <<version>>>>, <<"request", <<"GetMap">>>>,
                 <<"layers", layers>>, <<"bbox", <<"{bbox}">>>>,
                 <<"width", <<"{width}">>>>, <<"height", <<"{height}">>>>,
                 <<"format", <<format>>>>, <<projkey, <<"{proj}">>>>>>
               \o (IF styles = {} THEN <<>>
                   ELSE <<<<"styles", CHOOSE v \in styles : TRUE>>>>)
               \o (IF map = {} THEN <<>>
                   ELSE <<<<"map", CHOOSE v \in map : TRUE>>>>)
        kept == SelectSeq(all, LAMBDA kv : kv[1] \notin dropped)
    IN [i \in 1..Len(kept) |->
          <<IF upper THEN UpperKey(kept[i][1]) ELSE kept[i][1], kept[i][2]>>]

\* a server's capability document: layer a with CRS EPSG:4326 and style s1,
\* and inside it layer b adding epsg:3857 and style s2
GoodCapabilities(version, formats) ==
    [xml |-> "ok", root |-> "WMS_Capabilities", version |-> {version},
     tree |-> [n |-> 2, parent |-> <<0, 1>>, name |-> <<{"a"}, {"b"}>>,
               crs |-> <<{"EPSG:4326"}, {"epsg:3857"}>>,
               styles |-> <<{"s1"}, {"s2"}>>],
     formats |-> formats]

Unreachable == [CapabilitiesOf(EmptyTree) EXCEPT !.xml = "unreachable"]
ExceptionReport == [CapabilitiesOf(EmptyTree) EXCEPT !.root = "ServiceExceptionReport"]

\* what a server may answer to one GetCapabilities request
NegotiationResponses ==
    {Unreachable, ExceptionReport,
     GoodCapabilities("1.3.0", <<"image/png", "image/jpeg">>),
     GoodCapabilities("1.1.1", <<"image/png", NoText>>)}

RequestVersions == {VersionOrder[i] : i \in 1..Len(VersionOrder)}

\* the WMS sources of the model.  The first family takes every pattern of
\* answers to the five GetCapabilities requests under a few complete
\* queries; the second takes many queries against a few servers.
NegotiationSources(versions) ==
    {[type |-> "wms", url_valid |-> TRUE,
      placeholders |-> {"{proj}", "{bbox}", "{width}", "{height}"},
      query |-> WmsQuery(upper, v, IF v = "1.3.0" THEN "crs" ELSE "srs",
                         <<"a">>, "image/png", {<<"default">>}, map, {}),
      available_projections |-> {<<"EPSG:4326">>},
      responses |-> r] :
        upper \in BOOLEAN, v \in {"1.1.1", "1.3.0"},
        map \in {{}, {<<"/data/x.map">>}},
        r \in [versions -> NegotiationResponses]}

ArgumentSources(versions) ==
    {[type |-> "wms", url_valid |-> valid,
      placeholders |-> ph,
      query |-> WmsQuery(upper, v, projkey, layers, format, styles, {}, dropped),
      available_projections |-> proj,
      responses |-> [w \in versions |-> r]] :
        upper \in BOOLEAN,
        valid \in BOOLEAN,
        ph \in {{"{proj}", "{bbox}", "{width}", "{height}"}, {"{bbox}"}},
        v \in {"1.1.1", "1.3.0"}, projkey \in {"crs", "srs"},
        layers \in {<<"a">>, <<"a", Comma, "b">>, <<"a", Comma, "c">>},
        format \in {"image/png", "image/jpeg"},
        styles \in {{}, {<<>>}, {<<"default">>}, {<<"s2">>}, {<<Comma>>},
                    {<<Comma, Comma>>}, {<<"s1", Comma, "s2">>},
                    {<<"s2", Comma>>}},
        dropped \in {{}, {"layers"}, {"version"}, {"version", "format"},
                     {"bbox", "width", "crs", "srs"}},
        proj \in {{}, {<<"EPSG:4326", "EPSG:3857">>}},
        r \in {Unreachable, GoodCapabilities("1.3.0", <<"image/png", "image/jpeg">>)}}

WmsSources(versions) == NegotiationSources(versions) \cup ArgumentSources(versions)

InitWms ==
    /\ pc = "check_wms"
    /\ source \in WmsSources(RequestVersions)
    /\ good_msgs = <<>>
    /\ warning_msgs = <<>>
    /\ error_msgs = <<>>
    /\ http = <<>>
    /\ tested_zooms = {}
    /\ zoom_success = <<>>
    /\ zoom_failures = <<>>
    /\ wms = NoWms
    /\ files = <<>>
    /\ fileno = 0
    /\ outcomes = <<>>
    /\ borkenbuild = FALSE
    /\ status = -1

\* one call of check_wms; it ends by returning or by an exception
DoCheckWms ==
    /\ pc = "check_wms"
    /\ WmsReturns(CheckWms(source))
    /\ pc' = IF CheckWms(source).raised THEN "raised" ELSE "done"
    /\ UNCHANGED <<source, tested_zooms, zoom_success, zoom_failures, files,
                   fileno, outcomes, borkenbuild, status>>

NextWms == DoCheckWms

SpecWms == InitWms /\ [][NextWms]_vars

-----------------------------------------------------------------------------
(* check_wmts *)

\* check_wmts(source, good_msgs, warning_msgs, error_msgs): src.readable
\* tells whether WebMapTileService(url) returns
CheckWmts(src) ==
    [good |-> <<>>, warning |-> <<>>,
     error |-> IF src.readable THEN <<>> ELSE <<Msg("Exception", <<"wmts">>)>>,
     requests |-> <<[kind |-> "GET", url |-> "wmts"]>>]

-----------------------------------------------------------------------------
(* The loop over arguments.path *)

\* An entry of arguments.path is a record
\*   [geojson, exists, world, load, schema_valid, license_url,
\*    privacy_policy_url, geometry, country_code, properties]
\* geojson: the name ends in .geojson; exists: the file exists; world: the
\* name contains 'world'; load: what json.load does with the file ("ok",
\* "duplicate key": the hook raises ValidationError, "not json": json.load
\* raises ValueError); schema_valid: validator.validate returns;
\* license_url, privacy_policy_url: "absent", "ok" (the GET answers 200) or
\* "unreachable"; geometry: "absent", "null", "polygon", "multipolygon" or
\* "invalid"; country_code: the property is there; properties: the
\* properties the validator of the declared type reads.

\* the license and privacy policy checks
UrlPropertyErrors(value, what) ==
    IF value = "absent" THEN <<Msg("has no", <<what>>)>>
    ELSE IF value # "ok" THEN <<Msg("is not reachable", <<what>>)>>
    ELSE <<>>

UrlPropertyRequests(value, what) ==
    IF value = "absent" THEN <<>> ELSE <<[kind |-> "GET", url |-> what]>>

\* the geometry check: the messages it appends, and whether it raises
\* (subscripting or testing membership in a geometry that is absent or null)
GeometryCheck(file) ==
    IF ~file.world
    THEN IF file.geometry \in {"absent", "null"}
         THEN [error |-> <<>>, raised |-> TRUE]
         ELSE [error |->
                 (IF file.geometry = "multipolygon"
                  THEN <<Msg("should have a Polygon geometry", <<>>)>> ELSE <<>>)
                 \o (IF ~file.country_code
                     THEN <<Msg("should have a country or be global", <<>>)>>
                     ELSE <<>>),
               raised |-> FALSE]
    ELSE [error |-> IF file.geometry = "absent"
                    THEN <<Msg("should have null geometry", <<>>)>>
                    ELSE IF file.geometry # "null"
                    THEN <<Msg("should have null geometry but it is", <<>>)>>
                    ELSE <<>>,
          raised |-> FALSE]

\* the record handed to a validator
SourceOf(file) ==
    IF file.properties.type = "tms"
    THEN [type |-> "tms", url |-> file.properties.url,
          min_zoom |-> file.properties.min_zoom,
          max_zoom |-> file.properties.max_zoom,
          reachable |-> file.properties.reachable,
          geometry |-> file.geometry]
    ELSE file.properties

\* what a validator leaves, as the loop body sees it
Validated(r, requests, raised) ==
    [good |-> r.good, warning |-> r.warning, error |-> r.error,
     requests |-> requests, raised |-> raised]

TmsValidated(r) == Validated(r, r.st.probes, FALSE)

WmsValidated(r) == Validated(r, r.requests, r.raised)

OtherValidated(r) == Validated(r, r.requests, FALSE)

\* the dispatch on the imagery type
CheckImageryType(src) ==
    IF src.type = "tms" THEN TmsValidated(CheckTms(src))
    ELSE IF src.type = "wms" THEN WmsValidated(CheckWms(src))
    ELSE IF src.type = "wms_endpoint" THEN OtherValidated(CheckWmsEndpoint(src))
    ELSE IF src.type = "wmts" THEN OtherValidated(CheckWmts(src))
    ELSE [good |-> <<>>, error |-> <<>>, requests |-> <<>>, raised |-> FALSE,
          warning |-> <<Msg("Imagery type is currently not checked.", <<src.type>>)>>]

\* the except clause of the loop body: which exceptions it catches
Caught(exception) == exception = "ValidationError"

\* if len(error_msgs) > 0: raise ValidationError
RaisedNever(errors) == FALSE

RaisedOnErrors(errors) == Len(errors) > 0

\* the round's end when the checks of the entry ran: first are the errors of
\* the license and privacy checks, asked their requests, g the geometry
\* check, c what the validator left
CheckedRound(first, asked, g, c) ==
    [good |-> c.good, warning |-> c.warning, error |-> first \o g.error \o c.error,
     requests |-> asked \o c.requests, created |-> TRUE,
     exception |-> IF c.raised THEN "TypeError"
                   ELSE IF RaisedOnErrors(first \o g.error \o c.error)
                   THEN "ValidationError"
                   ELSE "none",
     outcome |-> IF c.raised THEN "failed" ELSE "checked"]

\* the round from the geometry check on
GeometryRound(file, first, asked, g) ==
    IF g.raised
    THEN [good |-> <<>>, warning |-> <<>>, error |-> first,
          requests |-> asked, created |-> TRUE,
          exception |-> "TypeError", outcome |-> "failed"]
    ELSE CheckedRound(first, asked, g, CheckImageryType(SourceOf(file)))

\* a round that ends before the message lists are created
EarlyRound(exception, outcome) ==
    [good |-> <<>>, warning |-> <<>>, error |-> <<>>, requests |-> <<>>,
     created |-> FALSE, exception |-> exception, outcome |-> outcome]

\* One round of the loop body on one entry: the exception it ends with
\* ("none" when it runs to its end), whether good_msgs, warning_msgs and
\* error_msgs were created, what they hold when the round ends, and the
\* requests issued
LoopBody(file) ==
    IF ~file.geojson \/ ~file.exists THEN EarlyRound("none", "skipped")
    ELSE IF file.load = "duplicate key" THEN EarlyRound("ValidationError", "rejected")
    ELSE IF file.load = "not json" THEN EarlyRound("ValueError", "failed")
    ELSE IF ~file.schema_valid THEN EarlyRound("ValidationError", "rejected")
    ELSE GeometryRound(file,
             UrlPropertyErrors(file.license_url, "license_url")
                 \o UrlPropertyErrors(file.privacy_policy_url, "privacy_policy_url"),
             UrlPropertyRequests(file.license_url, "license_url")
                 \o UrlPropertyRequests(file.privacy_policy_url, "privacy_policy_url"),
             GeometryCheck(file))

\* raise SystemExit(1) when borkenbuild is set
ExitStatus(borken) == IF borken THEN 1 ELSE 0

\* the command line holds at most MaxFiles paths
MaxFiles == 2

\* a global tile source in good order, and variations of it
GoodFile ==
    [geojson |-> TRUE, exists |-> TRUE, world |-> TRUE, load |-> "ok",
     schema_valid |-> TRUE, license_url |-> "ok", privacy_policy_url |-> "ok",
     geometry |-> "null", country_code |-> FALSE,
     properties |-> [type |-> "tms",
                     url |-> [z |-> FALSE, apikey |-> FALSE, switch |-> <<>>],
                     min_zoom |-> {2}, max_zoom |-> {4}, reachable |-> 2..4]]

RegionalFile ==
    [GoodFile EXCEPT !.world = FALSE, !.geometry = "polygon", !.country_code = TRUE]

WmsProperties(response) ==
    [type |-> "wms", url_valid |-> TRUE,
     placeholders |-> {"{proj}", "{bbox}", "{width}", "{height}"},
     query |-> WmsQuery(FALSE, "1.3.0", "crs", <<"a">>, "image/png",
                        {<<"s1">>}, {}, {}),
     available_projections |-> {<<"EPSG:4326">>},
     responses |-> [w \in RequestVersions |-> response]]

Files ==
    {GoodFile, RegionalFile,
     [GoodFile EXCEPT !.geojson = FALSE],
     [GoodFile EXCEPT !.exists = FALSE],
     [GoodFile EXCEPT !.load = "duplicate key"],
     [GoodFile EXCEPT !.load = "not json"],
     [GoodFile EXCEPT !.schema_valid = FALSE],
     [GoodFile EXCEPT !.license_url = "absent"],
     [GoodFile EXCEPT !.privacy_policy_url = "unreachable"],
     [GoodFile EXCEPT !.geometry = "polygon"],
     [GoodFile EXCEPT !.properties.reachable = {3}],
     [GoodFile EXCEPT !.properties.url.apikey = TRUE],
     [GoodFile EXCEPT !.properties.url.z = TRUE],
     [RegionalFile EXCEPT !.geometry = "null"],
     [RegionalFile EXCEPT !.geometry = "multipolygon"],
     [RegionalFile EXCEPT !.geometry = "invalid"],
     [RegionalFile EXCEPT !.country_code = FALSE],
     [GoodFile EXCEPT !.properties =
          WmsProperties(GoodCapabilities("1.3.0", <<"image/png">>))],
     [GoodFile EXCEPT !.properties = WmsProperties(Unreachable)],
     [GoodFile EXCEPT !.properties =
          WmsProperties(GoodCapabilities("1.3.0", <<"image/png", NoText>>))],
     [GoodFile EXCEPT !.properties =
          [type |-> "wms_endpoint",
           response |-> GoodCapabilities("1.3.0", <<"image/png">>)]],
     [GoodFile EXCEPT !.properties =
          [type |-> "wms_endpoint", response |-> ExceptionReport]],
     [GoodFile EXCEPT !.properties = [type |-> "wmts", readable |-> TRUE]],
     [GoodFile EXCEPT !.properties = [type |-> "wmts", readable |-> FALSE]],
     [GoodFile EXCEPT !.properties = [type |-> "bing"]]}

InitMain ==
    /\ pc = "loop"
    /\ files \in UNION {[1..n -> Files] : n \in 0..MaxFiles}
    /\ fileno = 0
    /\ outcomes = <<>>
    /\ borkenbuild = FALSE
    /\ status = -1
    /\ source = [type |-> "none"]
    /\ good_msgs = <<>>
    /\ warning_msgs = <<>>
    /\ error_msgs = <<>>
    /\ http = <<>>
    /\ tested_zooms = {}
    /\ zoom_success = <<>>
    /\ zoom_failures = <<>>
    /\ wms = NoWms

\* the effect of one round on the variables, r being what the body did with
\* the entry file
RoundEnds(file, r) ==
    /\ fileno' = fileno + 1
    /\ source' = IF r.created THEN SourceOf(file) ELSE source
    /\ good_msgs' = IF r.created THEN r.good ELSE good_msgs
    /\ warning_msgs' = IF r.created THEN r.warning ELSE warning_msgs
    /\ error_msgs' = IF r.created THEN r.error ELSE error_msgs
    /\ http' = http \o r.requests
    /\ outcomes' = Append(outcomes,
                          [outcome |-> r.outcome,
                           errors |-> IF r.created THEN Len(r.error) ELSE 0,
                           exception |-> r.exception])
    /\ pc' = IF r.exception = "none" \/ Caught(r.exception)
             THEN "loop"
             ELSE "crashed"  \* the exception ends the script with a traceback
    /\ borkenbuild' = IF r.exception # "none" /\ Caught(r.exception)
                      THEN TRUE ELSE borkenbuild
    /\ status' = IF r.exception = "none" \/ Caught(r.exception) THEN status ELSE 1

\* one round of the loop: the body on the next entry of arguments.path
ProcessFile ==
    /\ pc = "loop"
    /\ fileno < Len(files)
    /\ RoundEnds(files[fileno + 1], LoopBody(files[fileno + 1]))
    /\ UNCHANGED <<tested_zooms, zoom_success, zoom_failures, wms, files>>

\* the end of the script, after the loop
Exit ==
    /\ pc = "loop"
    /\ fileno = Len(files)
    /\ pc' = "exited"
    /\ status' = ExitStatus(borkenbuild)
    /\ UNCHANGED <<source, good_msgs, warning_msgs, error_msgs, http,
                   tested_zooms, zoom_success, zoom_failures, wms, files, fileno,
                   outcomes, borkenbuild>>

NextMain == ProcessFile \/ Exit

SpecMain == InitMain /\ [][NextMain]_vars

-----------------------------------------------------------------------------
(* Properties of check_tms, checked under SpecTms *)

\* the zooms of the tile requests issued, in order
ZoomLog == [i \in 1..Len(http) |-> http[i].zoom]

\* check_tms has ended and went through the probing
Probed ==
    /\ pc = "done"
    /\ source.type = "tms"
    /\ ~source.url.z /\ ~source.url.apikey
    /\ source.geometry # "invalid"

\* seq lists the members of S from the lowest up / from the highest down
IsAscendingListOf(seq, S) ==
    /\ Len(seq) = Cardinality(S)
    /\ {seq[i] : i \in 1..Len(seq)} = S
    /\ \A i, j \in 1..Len(seq) : i < j => seq[i] < seq[j]

IsDescendingListOf(seq, S) ==
    /\ Len(seq) = Cardinality(S)
    /\ {seq[i] : i \in 1..Len(seq)} = S
    /\ \A i, j \in 1..Len(seq) : i < j => seq[i] > seq[j]

\* the candidates of a widening up to and including the first reachable one
\* (all of them when none is reachable)
UpToFirstHitAscending(cands, reachable) ==
    LET hits == cands \cap reachable
    IN IF hits = {} THEN cands
       ELSE {z \in cands : \A h \in hits : z <= h}

UpToFirstHitDescending(cands, reachable) ==
    LET hits == cands \cap reachable
    IN IF hits = {} THEN cands
       ELSE {z \in cands : \A h \in hits : z >= h}

\* the requests that follow the probe of min_zoom are those of the zooms
\* lo .. hi, in ascending order, up to the first reachable one
AscendingPhaseIs(lo, hi) ==
    LET expected == UpToFirstHitAscending(lo..hi, source.reachable)
        n == Cardinality(expected)
    IN /\ Len(ZoomLog) >= 1 + n
       /\ ZoomLog[1] = min_zoom_of(source)
       /\ IsAscendingListOf(SubSeq(ZoomLog, 2, 1 + n), expected)

\* C2 (as stated): when min_zoom is unreachable the zooms min_zoom+1 ..
\* min(min_zoom+4, max_zoom), the upper end included, are probed next, in
\* ascending order, up to the first reachable one; so with min_zoom ..
\* min_zoom+3 unreachable and min_zoom+4 < max_zoom the fifth request is
\* the one of min_zoom+4.
C2_AscendingIncludesUpperEnd ==
    (Probed /\ min_zoom_of(source) \notin source.reachable) =>
        AscendingPhaseIs(min_zoom_of(source) + 1,
                         Min(min_zoom_of(source) + 4, max_zoom_of(source)))

\* C2 (amended): when min_zoom is unreachable the zooms min_zoom+1 ..
\* min(min_zoom+4, max_zoom) - 1, the upper end excluded, are probed next, in
\* ascending order, up to the first reachable one, and the request after
\* them is the probe of max_zoom.
C2_AscendingExcludesUpperEnd ==
    (Probed /\ min_zoom_of(source) \notin source.reachable) =>
        LET lo == min_zoom_of(source) + 1
            hi == Min(min_zoom_of(source) + 4, max_zoom_of(source)) - 1
            n  == Cardinality(UpToFirstHitAscending(lo..hi, source.reachable))
        IN /\ AscendingPhaseIs(lo, hi)
           /\ Len(ZoomLog) >= 2 + n
           /\ ZoomLog[2 + n] = max_zoom_of(source)

\* min_zoom .. min_zoom+3 are unreachable, min_zoom+4 < max_zoom, and the
\* fifth request went to max_zoom, not to min_zoom+4
C2_Witness ==
    /\ Probed
    /\ (min_zoom_of(source)..(min_zoom_of(source) + 3)) \cap source.reachable = {}
    /\ min_zoom_of(source) + 4 < max_zoom_of(source)
    /\ Len(ZoomLog) >= 5
    /\ ZoomLog[5] = max_zoom_of(source)

\* the index of the probe of max_zoom: the last request for that zoom
MaxProbeIndex ==
    CHOOSE p \in 1..Len(ZoomLog) :
        /\ ZoomLog[p] = max_zoom_of(source)
        /\ \A q \in (p + 1)..Len(ZoomLog) : ZoomLog[q] # max_zoom_of(source)

\* the requests that follow the probe of max_zoom are those of the zooms
\* lo .. hi not tested before it, in descending order, up to the first
\* reachable one
DescendingPhaseIs(lo, hi) ==
    LET p == MaxProbeIndex
        before == {ZoomLog[i] : i \in 1..p}
        expected == UpToFirstHitDescending((lo..hi) \ before, source.reachable)
    IN /\ \E q \in 1..Len(ZoomLog) : ZoomLog[q] = max_zoom_of(source)
       /\ IsDescendingListOf(SubSeq(ZoomLog, p + 1, Len(ZoomLog)), expected)

\* C3 (as stated): when max_zoom is unreachable the zooms max_zoom-1 ..
\* max(max_zoom-4, min_zoom), the lower end included, are probed in
\* descending order, skipping the zooms already tested, up to the first
\* reachable one.
C3_DescendingIncludesLowerEnd ==
    (Probed /\ max_zoom_of(source) \notin source.reachable) =>
        DescendingPhaseIs(Max(max_zoom_of(source) - 4, min_zoom_of(source)),
                          max_zoom_of(source) - 1)

\* C3 (amended): when max_zoom is unreachable the zooms max_zoom-1 ..
\* max(max_zoom-4, min_zoom) + 1, the lower end excluded, are probed in
\* descending order, skipping the zooms already tested, up to the first
\* reachable one, and nothing is requested after them.
C3_DescendingExcludesLowerEnd ==
    (Probed /\ max_zoom_of(source) \notin source.reachable) =>
        DescendingPhaseIs(Max(max_zoom_of(source) - 4, min_zoom_of(source)) + 1,
                          max_zoom_of(source) - 1)

\* max_zoom .. max_zoom-3 are unreachable, max_zoom-4 > min_zoom, max_zoom-3
\* was probed and max_zoom-4 was not
C3_Witness ==
    /\ Probed
    /\ ((max_zoom_of(source) - 3)..max_zoom_of(source)) \cap source.reachable = {}
    /\ max_zoom_of(source) - 4 > min_zoom_of(source)
    /\ (max_zoom_of(source) - 3) \in tested_zooms
    /\ (max_zoom_of(source) - 4) \notin tested_zooms

NoDuplicates(seq) == \A i, j \in 1..Len(seq) : i # j => seq[i] # seq[j]

\* C4: in one run of check_tms every zoom is requested at most once, so no
\* zoom occurs twice in zoom_success or in zoom_failures (min_zoom =
\* max_zoom included).
C4_EachZoomProbedOnce ==
    pc = "done" =>
        /\ NoDuplicates(ZoomLog)
        /\ NoDuplicates(zoom_success)
        /\ NoDuplicates(zoom_failures)

\* the case of C5: min_zoom 5, max_zoom 10, zooms 5 and 6 unreachable and
\* zoom 7 reachable
C5_Case ==
    /\ Probed
    /\ min_zoom_of(source) = 5 /\ max_zoom_of(source) = 10
    /\ 5 \notin source.reachable /\ 6 \notin source.reachable
    /\ 7 \in source.reachable

\* the record got an error naming at least one unreachable zoom
C5_ErrorNamesUnreachable ==
    \E i \in 1..Len(error_msgs) :
        /\ error_msgs[i].msg = "Zoom level not reachable"
        /\ \E k \in 1..Len(error_msgs[i].args[1]) :
               error_msgs[i].args[1][k] \notin source.reachable

\* C5 (as stated): in that case the tested set is exactly {5,6,7} and the
\* record gets an error naming an unreachable zoom.
C5_TestedIs567 ==
    C5_Case => (tested_zooms = {5, 6, 7} /\ C5_ErrorNamesUnreachable)

\* C5 (amended): in that case the tested set is {5,6,7,10}, with 9 added
\* when 10 is unreachable and 8 added when 10 and 9 are both unreachable,
\* and the record gets exactly one error, which names 5 and 6 and only
\* unreachable zooms, and no good message.
C5_TestedIs567AndTheTop ==
    C5_Case =>
        /\ tested_zooms =
              {5, 6, 7, 10}
              \cup (IF 10 \in source.reachable THEN {} ELSE {9})
              \cup (IF 10 \in source.reachable \/ 9 \in source.reachable
                    THEN {} ELSE {8})
        /\ good_msgs = <<>>
        /\ Len(error_msgs) = 1
        /\ error_msgs[1].msg = "Zoom level not reachable"
        /\ LET named == {error_msgs[1].args[1][k] :
                           k \in 1..Len(error_msgs[1].args[1])}
           IN {5, 6} \subseteq named /\ named \cap source.reachable = {}

\* the case of C5 with zooms 10 and 9 unreachable too: all of 5..10 tested
C5_Witness ==
    /\ C5_Case
    /\ 10 \notin source.reachable /\ 9 \notin source.reachable
    /\ tested_zooms = 5..10

\* C7 (as stated): a template containing {apikey} gets exactly one warning,
\* no error, no good message and no HTTP request, whatever else it contains
\* (here: even on sources whose geometry is in good order).
C7_ApikeyAlwaysOneWarning ==
    (pc = "done" /\ source.url.apikey /\ source.geometry # "invalid") =>
        /\ Len(warning_msgs) = 1
        /\ error_msgs = <<>>
        /\ good_msgs = <<>>
        /\ http = <<>>

\* C7 (amended): a template containing {apikey} gets no HTTP request and no
\* good message; it gets exactly one warning and no error when it does not
\* also contain {z} and the geometry, if any, can be turned into a shape;
\* otherwise it gets exactly one error and no warning.
C7_ApikeyOneWarningUnlessZ ==
    (pc = "done" /\ source.url.apikey) =>
        /\ http = <<>>
        /\ good_msgs = <<>>
        /\ IF ~source.url.z /\ source.geometry # "invalid"
           THEN /\ Len(warning_msgs) = 1
                /\ warning_msgs[1].msg = "Not possible to check URL, apikey is required."
                /\ error_msgs = <<>>
           ELSE /\ warning_msgs = <<>>
                /\ Len(error_msgs) = 1

\* a template with {apikey} and {switch:...} but no {z}, on a polygon, has
\* been given its warning
C7_Witness ==
    /\ pc = "done"
    /\ source.url.apikey /\ ~source.url.z /\ source.url.switch # <<>>
    /\ source.geometry = "polygon"
    /\ source.reachable # {}
    /\ Len(warning_msgs) = 1

\* C8: a template containing {z} gets exactly one error, no warning, no
\* good message and no HTTP request, whatever else it contains and whatever
\* the zoom bounds and the geometry.
C8_ZAlwaysOneError ==
    (pc = "done" /\ source.url.z) =>
        /\ Len(error_msgs) = 1
        /\ warning_msgs = <<>>
        /\ good_msgs = <<>>
        /\ http = <<>>

\* a template with {z}, {apikey} and {switch:...}, on a polygon, has been
\* given its error
C8_Witness ==
    /\ pc = "done"
    /\ source.url.z /\ source.url.apikey /\ source.url.switch # <<>>
    /\ source.geometry = "polygon"
    /\ source.reachable # {}
    /\ Len(error_msgs) = 1
    /\ error_msgs[1].msg = "{z} found instead of {zoom} in tile url"

-----------------------------------------------------------------------------
(* Properties of parse_wms, checked under SpecWmsEndpoint *)

\* the Layer elements enclosing element i, i included
RECURSIVE EnclosingLayers(_, _)
EnclosingLayers(tree, i) ==
    IF i = 0 THEN {} ELSE {i} \cup EnclosingLayers(tree, tree.parent[i])

\* the uppercased CRS/SRS values declared on the elements of S
DeclaredCrs(tree, S) == UNION {{Upper(t) : t \in tree.crs[i]} : i \in S}

\* the elements of the subtree of element m
Subtree(tree, m) == {i \in 1..tree.n : m \in EnclosingLayers(tree, i)}

\* a capability document has been parsed
Parsed ==
    /\ pc = "done"
    /\ source.type = "wms_endpoint"
    /\ error_msgs = <<>>

\* C6: after parsing, each named layer's CRS set is exactly the union of
\* the uppercased CRS/SRS values declared on it and on its ancestors, hence
\* a superset of its parent's set, and a value declared only inside one
\* layer's subtree never shows in the set of a layer that is neither an
\* ancestor nor a descendant of that layer - siblings directly under
\* Capability included.
C6_CrsIsUnionOverAncestors ==
    Parsed =>
        LET tree == source.response.tree
        IN \A nm \in DOMAIN wms.layers :
             LET layer == wms.layers[nm]
                 e == layer.element
             IN /\ layer.CRS = DeclaredCrs(tree, EnclosingLayers(tree, e))
                /\ \A nm2 \in DOMAIN wms.layers :
                       wms.layers[nm2].element = tree.parent[e]
                           => wms.layers[nm2].CRS \subseteq layer.CRS
                /\ \A m \in 1..tree.n :
                       (m \notin EnclosingLayers(tree, e)
                          /\ e \notin EnclosingLayers(tree, m))
                       => \A c \in DeclaredCrs(tree, Subtree(tree, m)) :
                              c \in DeclaredCrs(tree, (1..tree.n) \ Subtree(tree, m))
                                  \/ c \notin layer.CRS

-----------------------------------------------------------------------------
(* Properties of check_wms, checked under SpecWms *)

\* check_wms has ended (by a return or by an exception) and the
\* mandatory-parameter check had passed
NegotiationEntered ==
    /\ pc \in {"done", "raised"}
    /\ source.type = "wms"
    /\ \A i \in 1..Len(error_msgs) : error_msgs[i].msg # "Parameter is missing in url."

\* the answer to the request naming VersionOrder[i] parses
AnswerParses(i) == GetAndParse(source.responses[VersionOrder[i]]).ok

\* the number of requests the negotiation should take: up to the first
\* answer that parses, all five when none does
ExpectedRequests ==
    IF \E i \in 1..5 : AnswerParses(i)
    THEN CHOOSE k \in 1..5 : AnswerParses(k) /\ \A j \in 1..(k - 1) : ~AnswerParses(j)
    ELSE 5

\* C1: once the mandatory-parameter check has passed, the GetCapabilities
\* requests are issued in the order no version, 1.3.0, 1.1.1, 1.1.0, 1.0.0,
\* each only after every earlier one failed, and none after the first
\* answer that parses: if that is the k-th, exactly k requests are issued.
C1_NegotiationOrder ==
    NegotiationEntered =>
        /\ Len(http) = ExpectedRequests
        /\ \A i \in 1..Len(http) :
              /\ http[i].kind = "GetCapabilities"
              /\ http[i].version = <<{}, {"1.3.0"}, {"1.1.1"}, {"1.1.0"}, {"1.0.0"}>>[i]
              /\ \A j \in 1..(i - 1) : ~AnswerParses(j)

\* no version and 1.3.0 failed, 1.1.1 parsed, and exactly three requests
\* were issued
C1_Witness ==
    /\ NegotiationEntered
    /\ ~AnswerParses(1) /\ ~AnswerParses(2) /\ AnswerParses(3)
    /\ AnswerParses(4)
    /\ Len(http) = 3
    /\ http[3].version = {"1.1.1"}

-----------------------------------------------------------------------------
(* Properties of the mandatory-parameter check, checked under SpecWms *)

\* check_wms has ended
WmsChecked == pc \in {"done", "raised"} /\ source.type = "wms"

\* the query-parameter map, its keys in lower case
QueryMap == wms_args_of(parse_qsl(source.query), <<>>)

\* the mandatory parameters absent from the map
AbsentMandatory ==
    {p \in {"version", "request", "layers", "bbox", "width", "height", "format"} :
        p \notin DOMAIN QueryMap}

VersionIs130 == "version" \in DOMAIN QueryMap /\ QueryMap["version"] = <<"1.3.0">>

\* M with srs required in every case but version 1.3.0
MissingSrsOtherwise ==
    AbsentMandatory
    \cup (IF VersionIs130 THEN {"crs"} \ DOMAIN QueryMap
          ELSE {"srs"} \ DOMAIN QueryMap)

\* M with srs required only under a version that is present and not 1.3.0
MissingSrsUnderOtherVersion ==
    AbsentMandatory
    \cup (IF VersionIs130 THEN {"crs"} \ DOMAIN QueryMap
          ELSE IF "version" \in DOMAIN QueryMap THEN {"srs"} \ DOMAIN QueryMap
          ELSE {})

\* the positions of the missing-parameter errors in error_msgs
MissingErrors ==
    {i \in 1..Len(error_msgs) : error_msgs[i].msg = "Parameter is missing in url."}

\* check_wms reports the set M as missing, in one combined error, and stops
\* there when M is not empty; it reports nothing missing and goes on to the
\* negotiation when M is empty
StopsOnMissing(M) ==
    IF M # {}
    THEN /\ MissingErrors = {Len(error_msgs)}
         /\ error_msgs[Len(error_msgs)].args = <<M>>
         /\ http = <<>>
         /\ warning_msgs = <<>>
         /\ good_msgs = <<>>
    ELSE /\ MissingErrors = {}
         /\ Len(http) >= 1
         /\ http[1].kind = "GetCapabilities"

\* C11 as stated: M holds the absent ones of version, request, layers, bbox,
\* width, height, format, plus crs if absent under version 1.3.0, plus srs
\* if absent in every other case; check_wms appends exactly one combined
\* error naming exactly M and returns with no request and no later message
\* iff M is not empty, and goes on to the negotiation when M is empty.
C11_MissingNamesSrsInEveryOtherCase == WmsChecked => StopsOnMissing(MissingSrsOtherwise)

\* C11: the same, with srs a member of M only when the version parameter is
\* present and is not 1.3.0; without a version neither crs nor srs is
\* reported.
C11_MissingNamesSrsUnderOtherVersion ==
    WmsChecked => StopsOnMissing(MissingSrsUnderOtherVersion)

\* version 1.1.1 with crs in place of srs and no layers: one error naming
\* layers and srs, no request, and the url errors before it
C11_Witness ==
    /\ WmsChecked
    /\ "version" \in DOMAIN QueryMap /\ ~VersionIs130
    /\ MissingSrsUnderOtherVersion = {"layers", "srs"}
    /\ Len(error_msgs) = 3
    /\ error_msgs[3].args = <<{"layers", "srs"}>>
    /\ http = <<>>

-----------------------------------------------------------------------------
(* Properties of the style check, checked under SpecWms *)

\* check_wms has ended after its cross-checks against the capabilities
CrossChecked == WmsChecked /\ MissingErrors = {} /\ wms # NoWms

\* the names of the layers parameter
QueryLayers == Split(QueryMap["layers"])

\* at least one of them is absent from the capabilities' layer mapping
SomeLayerAbsent ==
    \E i \in 1..Len(QueryLayers) : QueryLayers[i] \notin DOMAIN wms.layers

\* the positions of the style errors in error_msgs
StyleErrorsAppended ==
    {i \in 1..Len(error_msgs) :
        error_msgs[i].msg \in {"Not the same number of styles and layers.",
                               "Layer does not support style"}}

\* the values of the styles parameter in the url (none when it is absent)
UrlStyles ==
    {source.query[i][2] : i \in {j \in 1..Len(source.query) :
                                   Lower(source.query[j][1]) = "styles"}}

\* styles is empty, default, or commas equal in number to the layer count
DefaultStyles ==
    \E v \in UrlStyles : v \in {<<>>, <<"default">>, Commas(Len(QueryLayers))}

\* the fields of the styles parameter
QueryStyles == Split(CHOOSE v \in UrlStyles : TRUE)

\* the pairs of an advertised layer and a non-empty style it does not have
UnsupportedPairs ==
    {k \in 1..Len(QueryLayers) :
        /\ QueryStyles[k] # ""
        /\ QueryLayers[k] \in DOMAIN wms.layers
        /\ QueryStyles[k] \notin wms.layers[QueryLayers[k]].Styles}

\* C12 as stated: the style check runs only when the layer check matched.
\* If a name of the layers parameter is absent from the capabilities, no
\* style error (count mismatch or per-pair) is appended whatever styles is;
\* and when all layers matched and styles is empty, default, or commas equal
\* in number to the layer count, no style error is appended either.
C12_NoStyleErrorUnlessLayersMatched ==
    CrossChecked =>
        /\ SomeLayerAbsent => StyleErrorsAppended = {}
        /\ (~SomeLayerAbsent /\ DefaultStyles) => StyleErrorsAppended = {}

\* C12: the style check runs whenever styles is present, whether or not the
\* layers matched.  No style error is appended when styles is absent, empty,
\* default, or commas equal in number to the layer count; otherwise a count
\* mismatch gives exactly the count-mismatch error, and equal counts give
\* exactly the per-pair errors of the advertised layers, none for a layer
\* absent from the capabilities.
C12_StyleCheckWhateverTheLayers ==
    CrossChecked =>
        IF UrlStyles = {} \/ DefaultStyles
        THEN StyleErrorsAppended = {}
        ELSE IF Len(QueryStyles) # Len(QueryLayers)
        THEN /\ Cardinality(StyleErrorsAppended) = 1
             /\ \A i \in StyleErrorsAppended :
                   error_msgs[i].msg = "Not the same number of styles and layers."
        ELSE /\ Cardinality(StyleErrorsAppended) = Cardinality(UnsupportedPairs)
             /\ {error_msgs[i] : i \in StyleErrorsAppended}
                  = {Msg("Layer does not support style",
                         <<QueryLayers[k], QueryStyles[k]>>) : k \in UnsupportedPairs}

\* layers a,c with c not advertised and styles s2, : the pair (a, s2) is
\* reported although the layer check did not match
C12_Witness ==
    /\ CrossChecked
    /\ SomeLayerAbsent
    /\ \E i \in StyleErrorsAppended :
          error_msgs[i] = Msg("Layer does not support style", <<"a", "s2">>)
    /\ \E i \in 1..Len(error_msgs) :
          error_msgs[i].msg = "Layers not advertised by WMS GetCapabilities request."

-----------------------------------------------------------------------------
(* Properties of the loop over the input files, checked under SpecMain *)

\* entry i was read, passed the schema, and its checks ran to their end
\* leaving a non-empty error_msgs
EndedWithErrors(i) ==
    /\ outcomes[i].outcome = "checked"
    /\ outcomes[i].errors > 0

\* entry i is a GeoJSON file that exists and that json.load or the schema
\* validation rejected with a ValidationError
Rejected(i) ==
    /\ files[i].geojson /\ files[i].exists
    /\ \/ files[i].load = "duplicate key"
       \/ files[i].load = "ok" /\ ~files[i].schema_valid

\* C9 (as stated): after the loop the exit status is non-zero if and only
\* if at least one processed record finished its validation with a
\* non-empty error sequence.
C9_NonZeroIffSomeRecordHadErrors ==
    pc = "exited" =>
        (status # 0 <=> \E i \in 1..Len(outcomes) : EndedWithErrors(i))

\* C9 (amended): after the loop the exit status is non-zero if and only if
\* at least one processed record finished its validation with a non-empty
\* error sequence or was rejected, before any check ran, for a duplicate
\* key or by the schema validation.
C9_NonZeroIffSomeRecordInvalid ==
    pc = "exited" =>
        /\ status \in {0, 1}
        /\ Len(outcomes) = Len(files)
        /\ status # 0 <=>
               \E i \in 1..Len(outcomes) : EndedWithErrors(i) \/ Rejected(i)

\* the script has exited with status 1 after a run in which one record
\* ended with errors and another was clean
C9_Witness ==
    /\ pc = "exited"
    /\ status = 1
    /\ Len(outcomes) = 2
    /\ EndedWithErrors(1)
    /\ outcomes[2].outcome = "checked" /\ outcomes[2].errors = 0

\* C10: a failure raised while one source is being checked does not end
\* the run: the loop goes on to every later source, so the script ends only
\* once every entry of the list has been processed.
C10_NoFailureEndsTheRun ==
    pc \in {"exited", "crashed"} => fileno = Len(files)

====
